---- MODULE Spec2Model ----
(***************************************************************************)
(* A model of the useThree hook (src/src/index.ts): the mount effect that  *)
(* builds the rendering session, the frame callback `update`, and the      *)
(* controller operations start / stop / resize, together with the host     *)
(* pieces they talk to (the frame-pacing primitive, the window resize      *)
(* event, the loading manager's event hooks).                              *)
(***************************************************************************)
EXTENDS Integers, Sequences, FiniteSets, TLC

\* ------------------------------------------------------------------ bounds
\* Number of frames the host dispatches in one behaviour.
MaxTicks == 2
\* Number of re-renders of the owning component after the first render.
MaxRenders == 1

\* ------------------------------------------------------------ plain values
Undefined == "undefined"

HandlerNames ==
  {"onStart", "onUpdate", "onDestroy", "onLoad", "onLoadError", "onLoadProgress"}


\* What a caller-supplied handler may do when it is invoked.
Outcomes == {"returns", "throws"}

\* The layouts of the container, <<clientWidth, clientHeight>>: three of
\* zero extent, a wide one and a tall one.
ContainerSizes == {<<0, 0>>, <<2, 0>>, <<0, 1>>, <<2, 1>>, <<1, 2>>}

\* requestAnimationFrame timestamps, in milliseconds.
Timestamps == {k * 500 : k \in 1..MaxTicks}

RECURSIVE GCD(_, _)
GCD(a, b) == IF b = 0 THEN a ELSE GCD(b, a % b)

\* The two non-finite results of a JavaScript division, and the value of a
\* property an object does not have.
Infinity == [num |-> 1, den |-> 0]
NaN == [num |-> 0, den |-> 0]
NoNumber == [num |-> 0, den |-> -1]

\* JavaScript's `a / b` on non-negative integers, as an exact value: a
\* reduced fraction, Infinity for x/0 (x > 0) and NaN for 0/0.
Div(a, b) ==
  IF b = 0
  THEN (IF a = 0 THEN NaN ELSE Infinity)
  ELSE LET g == GCD(a, b) IN [num |-> a \div g, den |-> b \div g]

\* The aspect a caller built its perspective camera with.
InjectedAspect == Div(3, 2)

\* ---------------------------------------------------------------- state
VARIABLES
  events,        \* the handler set passed to the latest render
  context,       \* the configuration passed to the first render
  container,     \* ref.current: [attached, width, height]
  refs,          \* scene.current, camera.current, renderer.current, manager.current
  phase,         \* "rendered" | "mounted" | "unmounted"
  callbacks,     \* callbacks.current
  storage,       \* storage.current, the Shared Context
  cameraObj,     \* the camera object camera.current refers to
  rendererObj,   \* the renderer object renderer.current refers to
  managerObj,    \* the loading manager manager.current refers to
  frameId,       \* frameId.current (0: undefined)
  lastTime,      \* lastTime.current
  deltaTime,     \* deltaTime.current
  nextHandle,    \* host: the last request handle handed out
  pendingFrames, \* host: frame requests not yet dispatched
  inflight,      \* host: the frame dispatched and not yet run
  clock,         \* host: timestamp of the last dispatched frame
  listening,     \* window "resize" listener registered
  cleanup,       \* the effect returned its teardown closure
  trace,         \* the calls made by the operation that ran last
  stopped,       \* stop() has returned at least once
  ticksAfterStop, \* frame callbacks run since stop() first returned
  ticks          \* history of the frame callbacks run: [time, threw, updates]

vars == <<events, context, container, refs, phase, callbacks,
          storage, cameraObj, rendererObj, managerObj, frameId, lastTime,
          deltaTime, nextHandle, pendingFrames, inflight, clock, listening,
          cleanup, trace, stopped, ticksAfterStop, ticks>>

\* ------------------------------------------------------- configuration
\* ContextArguments: each resource may be injected or left out; `store` is a
\* caller object that may itself carry a manualRender entry; webgl2 and
\* manualRender are extension fields.
NoStore == [id |-> Undefined, manualRender |-> FALSE]

DefaultContext ==
  [scene |-> Undefined, renderer |-> Undefined, camera |-> Undefined,
   manager |-> Undefined, store |-> NoStore, webgl2 |-> FALSE,
   manualRender |-> FALSE]

\* Every resource injected; the caller's store carries its own manualRender
\* entry.
AllInjected ==
  [scene |-> "scene#injected", renderer |-> "renderer#injected",
   camera |-> "PerspectiveCamera#injected", manager |-> "manager#injected",
   store |-> [id |-> "store#injected", manualRender |-> TRUE],
   webgl2 |-> FALSE, manualRender |-> FALSE]

\* The configurations considered: the default one, the one that injects
\* every resource, one with an orthographic camera and the webgl2 option
\* (the renderer left to the hook), and one with the manualRender option.
ContextArguments ==
  {DefaultContext, AllInjected,
   [DefaultContext EXCEPT !.camera = "OrthographicCamera#injected",
                          !.webgl2 = TRUE],
   [DefaultContext EXCEPT !.manualRender = TRUE]}

\* What the first render is given: every configuration with the full handler
\* set, and the default configuration with no handlers.
FirstRenders ==
  {[events |-> [id |-> 1, has |-> HandlerNames], context |-> c] :
     c \in ContextArguments}
  \cup {[events |-> [id |-> 1, has |-> {}], context |-> DefaultContext]}

DevicePixelRatios == {0, 2}

\* `{} as any`: the Shared Context before the mount effect populates it.
EmptyContext ==
  [scene |-> Undefined, renderer |-> Undefined, camera |-> Undefined,
   manager |-> Undefined, store |-> NoStore, webgl2 |-> FALSE,
   manualRender |-> FALSE]

EmptyRefs ==
  [scene |-> Undefined, renderer |-> Undefined, camera |-> Undefined,
   manager |-> Undefined]

NoObject == [id |-> Undefined]
NoFrame == [id |-> 0, time |-> 0]

Init ==
  /\ \E first \in FirstRenders :
       /\ events = first.events
       /\ context = first.context
  /\ container \in
       {[attached |-> FALSE, width |-> 0, height |-> 0]}
       \cup {[attached |-> TRUE, width |-> sz[1], height |-> sz[2]] :
               sz \in ContainerSizes}
  /\ refs = EmptyRefs
  /\ phase = "rendered"
  /\ callbacks = events
  /\ storage = EmptyContext
  /\ cameraObj = NoObject
  /\ rendererObj = NoObject
  /\ managerObj = NoObject
  /\ frameId = 0
  /\ lastTime = 0
  /\ deltaTime = Div(0, 1)
  /\ nextHandle = 0
  /\ pendingFrames = {}
  /\ inflight = NoFrame
  /\ clock = 0
  /\ listening = FALSE
  /\ cleanup = FALSE
  /\ trace = <<>>
  /\ stopped = FALSE
  /\ ticksAfterStop = 0
  /\ ticks = <<>>

\* ------------------------------------------------------------ call records
Call(name) == [call |-> name]

\* A handler of the registry `cb` invoked with the Shared Context `ctx`.
HandlerCall(name, cb, ctx, args) ==
  [call |-> name, who |-> cb.id, ctx |-> ctx, args |-> args]

Has(cb, name) == name \in cb.has

OutcomesOf(cb, name, all) == IF Has(cb, name) THEN all ELSE {"returns"}

Threw(cb, name, outcome) == Has(cb, name) /\ outcome = "throws"

ThrowMark(threw) == IF threw THEN <<Call("throw")>> ELSE <<>>

\* ------------------------------------------------------------ start()
\* start() with the guard of line 168 left out.
StartRequestsFrameUnguarded(fid) == TRUE

\* start() with the guard of line 168 inverted.
StartRequestsFrameInverted(fid) == fid # 0

\* Line 168: the frame is requested only while frameId.current is falsy.
StartRequestsFrame(fid) == fid = 0

\* Lines 164-166: onStart is invoked whenever it is present.
StartInvokesOnStart(cb, fid) == Has(cb, "onStart")

\* start(): what it calls and whether it requests a frame, for the registry
\* `cb`, the context `st`, frameId.current `fid`, the host's last handle and
\* the outcome of the onStart handler.  `pending` (whether a frame request
\* was pending on entry) is only written into the call record.
StartResult(cb, st, fid, handle, outcome, pending) ==
  LET invoked == StartInvokesOnStart(cb, fid)
      threw == invoked /\ outcome = "throws"
      request == ~threw /\ StartRequestsFrame(fid)
  IN [threw |-> threw,
      request |-> request,
      frameId |-> IF request THEN handle + 1 ELSE fid,
      calls |->
        <<[call |-> "start", wasPending |-> pending]>>
        \o (IF invoked THEN <<HandlerCall("onStart", cb, st, <<>>)>> ELSE <<>>)
        \o (IF request
            THEN <<[call |-> "requestAnimationFrame", id |-> handle + 1]>>
            ELSE <<>>)
        \o ThrowMark(threw)]

\* The effect of start() on the frame-request state.
ApplyStart(r) ==
  /\ frameId' = r.frameId
  /\ nextHandle' = IF r.request THEN nextHandle + 1 ELSE nextHandle
  /\ pendingFrames' =
       IF r.request THEN pendingFrames \cup {nextHandle + 1} ELSE pendingFrames

\* ------------------------------------------------------- the mount effect
\* The scene taken to be a fresh default even when one is injected.
SceneForAlwaysDefault(ctx) == "scene#default"

\* Lines 82-86: each resource is the injected one or a fresh default.
SceneFor(ctx) == IF ctx.scene # Undefined THEN ctx.scene ELSE "scene#default"

\* Lines 60-72, createRenderer: the backend of the renderer it returns, a
\* renderer on a canvas's "webgl2" context when the option is set and the
\* plain one otherwise.  No line of the hook calls it.
createRenderer(ctx) == IF ctx.webgl2 THEN "webgl2" ELSE "default"

\* Line 83 constructs the plain renderer; createRenderer (lines 60-72) is
\* never called.
RendererFor(ctx) ==
  IF ctx.renderer # Undefined
  THEN [id |-> ctx.renderer, backend |-> "injected"]
  ELSE [id |-> "renderer#default", backend |-> "default"]

\* The default camera built with a fixed aspect of 1 instead of the
\* container's.
CameraForUnitAspect(ctx, aspect) ==
  IF ctx.camera = "PerspectiveCamera#injected"
  THEN [id |-> ctx.camera, type |-> "PerspectiveCamera",
        aspect |-> InjectedAspect, projection |-> InjectedAspect]
  ELSE IF ctx.camera = "OrthographicCamera#injected"
  THEN [id |-> ctx.camera, type |-> "OrthographicCamera",
        aspect |-> NoNumber, projection |-> NoNumber]
  ELSE [id |-> "camera#default", type |-> "PerspectiveCamera",
        aspect |-> Div(1, 1), projection |-> Div(1, 1)]

CameraFor(ctx, aspect) ==
  IF ctx.camera = "PerspectiveCamera#injected"
  THEN [id |-> ctx.camera, type |-> "PerspectiveCamera",
        aspect |-> InjectedAspect, projection |-> InjectedAspect]
  ELSE IF ctx.camera = "OrthographicCamera#injected"
  THEN [id |-> ctx.camera, type |-> "OrthographicCamera",
        aspect |-> NoNumber, projection |-> NoNumber]
  ELSE [id |-> "camera#default", type |-> "PerspectiveCamera",
        aspect |-> aspect, projection |-> aspect]

ManagerFor(ctx) ==
  IF ctx.manager # Undefined THEN ctx.manager ELSE "manager#default"

\* Lines 82-86: the constructor calls made, one for each resource the
\* configuration leaves out, in the order of the code.
Constructions(ctx) ==
  (IF ctx.scene = Undefined
   THEN <<[call |-> "new", what |-> "Scene"]>> ELSE <<>>)
  \o (IF ctx.renderer = Undefined
      THEN <<[call |-> "new", what |-> "WebGLRenderer"]>> ELSE <<>>)
  \o (IF ctx.camera = Undefined
      THEN <<[call |-> "new", what |-> "PerspectiveCamera"]>> ELSE <<>>)
  \o (IF ctx.manager = Undefined
      THEN <<[call |-> "new", what |-> "LoadingManager"]>> ELSE <<>>)

\* Line 46 and line 93: the store is the caller's object or a fresh {}.
StoreFor(ctx) ==
  IF ctx.store.id # Undefined
  THEN ctx.store
  ELSE [id |-> "store#default", manualRender |-> FALSE]

\* The Shared Context with line 92 left out: the manager entry is whatever
\* the spread of the configuration put there.
PopulatedContextNoManager(ctx, sc, cam, rend, mgr, st) ==
  [scene |-> sc, camera |-> cam, renderer |-> rend, manager |-> ctx.manager,
   store |-> st, webgl2 |-> ctx.webgl2, manualRender |-> ctx.manualRender]

\* Lines 88-93: the configuration is spread into the Shared Context and the
\* five handles are then assigned over it.
PopulatedContext(ctx, sc, cam, rend, mgr, st) ==
  [scene |-> sc, camera |-> cam, renderer |-> rend, manager |-> mgr,
   store |-> st, webgl2 |-> ctx.webgl2, manualRender |-> ctx.manualRender]

\* Line 96: window.devicePixelRatio || 1.
PixelRatio(dpr) == IF dpr # 0 THEN dpr ELSE 1

\* The effect carrying on after a start() that threw.
EffectCompletesAlways(threw) == TRUE

\* Lines 125-133: the statements after start() (appendChild,
\* addEventListener, the returned teardown) are reached only when start()
\* has returned.
EffectCompletes(threw) == ~threw

\* The effect of lines 74-135, run once after the first render.
Mount ==
  /\ phase = "rendered"
  /\ phase' = "mounted"
  /\ callbacks' = events
  /\ UNCHANGED <<events, context, container, lastTime,
                 deltaTime, inflight, clock, stopped, ticksAfterStop, ticks>>
  /\ IF ~container.attached
     THEN /\ trace' = <<Call("effect")>>
          /\ UNCHANGED <<refs, storage, cameraObj, rendererObj, managerObj,
                         frameId, nextHandle, pendingFrames, listening,
                         cleanup>>
     ELSE \E outcome \in OutcomesOf(events, "onStart", Outcomes),
             devicePixelRatio \in DevicePixelRatios :
          LET width == container.width
              height == container.height
              aspect == Div(width, height)
              cam == CameraFor(context, aspect)
              rend == RendererFor(context)
              ctx == PopulatedContext(context, SceneFor(context), cam.id,
                                      rend.id, ManagerFor(context),
                                      StoreFor(context))
              r == StartResult(events, ctx, frameId, nextHandle, outcome,
                               pendingFrames # {})
          IN /\ refs' = [scene |-> SceneFor(context), camera |-> cam.id,
                         renderer |-> rend.id, manager |-> ManagerFor(context)]
             /\ storage' = ctx
             /\ cameraObj' = cam
             /\ rendererObj' =
                  [id |-> rend.id, backend |-> rend.backend,
                   size |-> <<width, height>>,
                   appended |-> EffectCompletes(r.threw)]
             /\ managerObj' = [id |-> ManagerFor(context), hooked |-> TRUE]
             /\ ApplyStart(r)
             /\ listening' = EffectCompletes(r.threw)
             /\ cleanup' = EffectCompletes(r.threw)
             /\ trace' =
                  <<Call("effect")>>
                  \o Constructions(context)
                  \o <<[call |-> "setSize", width |-> width, height |-> height],
                    [call |-> "setPixelRatio",
                     ratio |-> PixelRatio(devicePixelRatio)]>>
                  \o r.calls
                  \o (IF EffectCompletes(r.threw)
                      THEN <<Call("appendChild"), Call("addEventListener")>>
                      ELSE <<>>)

\* A later render of the owning component: the caller passes a handler set
\* of the same shape whose functions are new values.  The effect has an
\* empty dependency list (line 135), so it does not run again and
\* callbacks.current keeps the handlers of the first render.
Rerender ==
  /\ phase = "mounted"
  /\ events.id <= MaxRenders
  /\ events' = [events EXCEPT !.id = events.id + 1]
  /\ trace' = <<Call("rerender")>>
  /\ UNCHANGED <<context, container, refs, phase, callbacks,
                 storage, cameraObj, rendererObj, managerObj, frameId,
                 lastTime, deltaTime, nextHandle, pendingFrames, inflight,
                 clock, listening, cleanup, stopped, ticksAfterStop, ticks>>

\* start() and stop() may also be called directly on a controller whose
\* mount effect ran to completion.
SessionExists == cleanup

\* A direct start().

Start ==
  /\ SessionExists
  /\ \E outcome \in OutcomesOf(callbacks, "onStart", Outcomes) :
       LET r == StartResult(callbacks, storage, frameId, nextHandle, outcome,
                            pendingFrames # {})
       IN /\ ApplyStart(r)
          /\ trace' = r.calls
  /\ UNCHANGED <<events, context, container, refs, phase,
                 callbacks, storage, cameraObj, rendererObj, managerObj,
                 lastTime, deltaTime, inflight, clock, listening, cleanup,
                 stopped, ticksAfterStop, ticks>>

\* ------------------------------------------------- the frame-pacing host
\* The host takes the pending frame request and dispatches it with a
\* timestamp later than the previous frame's; the callback runs in Tick.
HostDispatch ==
  /\ inflight = NoFrame
  /\ \E id \in pendingFrames, t \in Timestamps :
       /\ t > clock
       /\ inflight' = [id |-> id, time |-> t]
       /\ pendingFrames' = pendingFrames \ {id}
       /\ clock' = t
  /\ trace' = <<Call("dispatch")>>
  /\ UNCHANGED <<events, context, container, refs, phase,
                 callbacks, storage, cameraObj, rendererObj, managerObj,
                 frameId, lastTime, deltaTime, nextHandle, listening, cleanup,
                 stopped, ticksAfterStop, ticks>>

\* ------------------------------------------------------------ update(time)
\* The flag read from the store instead of the Shared Context.
RenderSuppressedByStore(st) == st.store.manualRender

\* Line 154: the render pass is skipped when the Shared Context itself
\* carries a truthy manualRender entry.
RenderSuppressed(st) == st.manualRender

\* Line 138: renderScene acts only when the three refs are set.
CanRender(r) ==
  r.renderer # Undefined /\ r.camera # Undefined /\ r.scene # Undefined

\* camera.updateProjectionMatrix(): a perspective camera's matrix is rebuilt
\* from its current aspect, an orthographic one's from its frustum.
UpdateProjectionMatrix(cam) ==
  IF cam.type = "PerspectiveCamera"
  THEN [cam EXCEPT !.projection = cam.aspect]
  ELSE cam

\* update() with the request of line 148 moved behind the dispatch of
\* onUpdate: a throwing handler leaves no request behind.
TickRequestsFrameAfterUpdate(threw) == ~threw

\* Line 148 precedes the dispatch of onUpdate (lines 150-152): the next
\* frame is requested whether or not the handler throws.
TickRequestsFrame(threw) == TRUE

\* Line 146 with the division by 1000 left out.
DeltaSecondsInMillis(time, last) == Div(time - last, 1)

\* Line 146: (time - lastTime.current) / 1000.
DeltaSeconds(time, last) == Div(time - last, 1000)

\* update() with line 158 moved ahead of the dispatch: lastTime.current is
\* assigned even when onUpdate throws.
TickSetsLastTimeAlways(threw) == TRUE

\* Line 158 is the last statement of update(): it is reached only when
\* onUpdate has returned.
TickSetsLastTime(threw) == ~threw

\* update() that skips the handler on a tick without a baseline
\* (lastTime.current still 0).
TickSkipsUpdateWithoutBaseline(cb, last) == Has(cb, "onUpdate") /\ last # 0

\* Line 150: onUpdate is invoked on every tick on which the registry has it.
TickInvokesOnUpdate(cb, last) == Has(cb, "onUpdate")

\* Lines 144-161, run by the host for the frame it dispatched.
Tick ==
  /\ inflight # NoFrame
  /\ \E outcome \in OutcomesOf(callbacks, "onUpdate", Outcomes) :
       LET time == inflight.time
           cb == callbacks
           delta == DeltaSeconds(time, lastTime)
           id == nextHandle + 1
           invoked == TickInvokesOnUpdate(cb, lastTime)
           threw == invoked /\ outcome = "throws"
           renders == ~threw /\ ~RenderSuppressed(storage) /\ CanRender(refs)
           requests == TickRequestsFrame(threw)
       IN /\ deltaTime' = delta
          /\ frameId' = IF requests THEN id ELSE frameId
          /\ nextHandle' = IF requests THEN id ELSE nextHandle
          /\ pendingFrames' =
               IF requests THEN pendingFrames \cup {id} ELSE pendingFrames
          /\ cameraObj' =
               IF renders THEN UpdateProjectionMatrix(cameraObj) ELSE cameraObj
          /\ lastTime' = IF TickSetsLastTime(threw) THEN time ELSE lastTime
          /\ ticks' = Append(ticks, [time |-> time, threw |-> threw,
                                    updates |-> IF invoked THEN 1 ELSE 0])
          /\ trace' =
               <<[call |-> "update", time |-> time]>>
               \o (IF requests
                   THEN <<[call |-> "requestAnimationFrame", id |-> id]>>
                   ELSE <<>>)
               \o (IF invoked
                   THEN <<HandlerCall("onUpdate", cb, storage, delta)>>
                   ELSE <<>>)
               \o (IF renders
                   THEN <<Call("updateProjectionMatrix"),
                          [call |-> "render", scene |-> refs.scene,
                           camera |-> refs.camera,
                           renderer |-> refs.renderer]>>
                   ELSE <<>>)
               \o ThrowMark(threw)
  /\ inflight' = NoFrame
  /\ ticksAfterStop' = IF stopped THEN ticksAfterStop + 1 ELSE ticksAfterStop
  /\ UNCHANGED <<events, context, container, refs, phase,
                 callbacks, storage, rendererObj, managerObj, clock, listening,
                 cleanup, stopped>>

\* ------------------------------------------------------------ stop()
\* stop() that never cancels the request.
StopNeverCancels(fid) == FALSE

\* Line 178: the request is cancelled only when frameId.current is truthy.
StopCancels(fid) == fid # 0

\* Lines 173-181.  cancelAnimationFrame withdraws the request named by
\* frameId.current; when the host has already dispatched that very frame the
\* cancellation may come too late (`honoured` is the host's choice).
StopBody(outcome, honoured) ==
  LET invoked == Has(callbacks, "onDestroy")
      threw == Threw(callbacks, "onDestroy", outcome)
      cancels == ~threw /\ StopCancels(frameId)
  IN /\ pendingFrames' =
          IF cancels THEN pendingFrames \ {frameId} ELSE pendingFrames
     /\ inflight' =
          IF cancels /\ inflight.id = frameId /\ honoured
          THEN NoFrame
          ELSE inflight
     /\ stopped' = (stopped \/ ~threw)
     /\ trace' =
          <<[call |-> "stop", again |-> stopped]>>
          \o (IF invoked
              THEN <<HandlerCall("onDestroy", callbacks, storage, <<>>)>>
              ELSE <<>>)
          \o (IF cancels
              THEN <<[call |-> "cancelAnimationFrame", id |-> frameId]>>
              ELSE <<>>)
          \o ThrowMark(threw)

\* A direct stop().
Stop ==
  /\ SessionExists
  /\ \E outcome \in OutcomesOf(callbacks, "onDestroy", Outcomes),
        honoured \in BOOLEAN :
       StopBody(outcome, honoured)
  /\ UNCHANGED <<events, context, container, refs, phase,
                 callbacks, storage, cameraObj, rendererObj, managerObj,
                 frameId, lastTime, deltaTime, nextHandle, clock, listening,
                 cleanup, ticksAfterStop, ticks>>

\* The owning component unmounts: the effect's teardown (lines 131-133)
\* runs stop() when the effect registered it, and the container ref is
\* detached.
Unmount ==
  /\ phase = "mounted"
  /\ phase' = "unmounted"
  /\ container' = [attached |-> FALSE, width |-> 0, height |-> 0]
  /\ IF cleanup
     THEN \E outcome \in OutcomesOf(callbacks, "onDestroy", Outcomes),
             honoured \in BOOLEAN :
            StopBody(outcome, honoured)
     ELSE /\ trace' = <<Call("unmount")>>
          /\ UNCHANGED <<pendingFrames, inflight, stopped>>
  /\ UNCHANGED <<events, context, refs, callbacks, storage,
                 cameraObj, rendererObj, managerObj, frameId, lastTime,
                 deltaTime, nextHandle, clock, listening, cleanup,
                 ticksAfterStop, ticks>>

\* ------------------------------------------------------------ resize()
\* Line 184: resize acts only with the container, camera and renderer set.
CanResize(c, r) ==
  c.attached /\ r.camera # Undefined /\ r.renderer # Undefined

\* resize() with line 193 left out: the aspect is assigned but the
\* projection matrix is not recomputed.
ResizeCameraStaleProjection(cam, aspect) ==
  IF cam.type = "PerspectiveCamera" THEN [cam EXCEPT !.aspect = aspect]
  ELSE cam

\* Lines 189-193: the aspect is assigned on perspective cameras only, then
\* the projection matrix is recomputed.
ResizeCamera(cam, aspect) ==
  UpdateProjectionMatrix(
    IF cam.type = "PerspectiveCamera" THEN [cam EXCEPT !.aspect = aspect]
    ELSE cam)

\* The container is laid out anew and the window fires "resize"; resize()
\* (lines 183-196) runs when the listener of line 129 is registered.
WindowResize ==
  /\ phase = "mounted"
  /\ \E sz \in ContainerSizes :
       LET w == sz[1]
           h == sz[2]
           c == [container EXCEPT !.width = w, !.height = h]
           acts == listening /\ CanResize(c, refs)
       IN /\ container' = c
          /\ cameraObj' =
               IF acts THEN ResizeCamera(cameraObj, Div(w, h)) ELSE cameraObj
          /\ rendererObj' =
               IF acts THEN [rendererObj EXCEPT !.size = <<w, h>>]
               ELSE rendererObj
          /\ trace' =
               <<Call("resize")>>
               \o (IF acts /\ cameraObj.type = "PerspectiveCamera"
                   THEN <<[call |-> "setAspect", aspect |-> Div(w, h)]>>
                   ELSE <<>>)
               \o (IF acts
                   THEN <<Call("updateProjectionMatrix"),
                          [call |-> "setSize", width |-> w, height |-> h]>>
                   ELSE <<>>)
  /\ UNCHANGED <<events, context, refs, phase, callbacks,
                 storage, managerObj, frameId, lastTime, deltaTime,
                 nextHandle, pendingFrames, inflight, clock, listening,
                 cleanup, stopped, ticksAfterStop, ticks>>

\* ------------------------------------------- loading-manager forwarders
Items == {"model.glb"}
Urls == {"missing.png"}
Progress == {<<3, 10>>}

\* A forwarder that halts the frame loop on a loading error: it withdraws
\* the pending frame request.
PendingAfterEventHalting(name, pending) ==
  IF name = "onLoadError" THEN {} ELSE pending

\* Lines 98-123: the forwarders call the handler and nothing else; the
\* pending frame request is left as it is.
PendingAfterEvent(name, pending) == pending

\* Lines 98-123: each hook forwards to the registry's current handler, if
\* there is one, with the Shared Context and the event's own payload.  A
\* handler that throws propagates to the loading manager's caller.
Forward(name, args) ==
  /\ managerObj.id # Undefined
  /\ managerObj.hooked
  /\ \E outcome \in OutcomesOf(callbacks, name, Outcomes) :
       trace' =
         <<[call |-> "manager", event |-> name, payload |-> args]>>
         \o (IF Has(callbacks, name)
             THEN <<HandlerCall(name, callbacks, storage, args)>>
             ELSE <<>>)
         \o ThrowMark(Threw(callbacks, name, outcome))
  /\ pendingFrames' = PendingAfterEvent(name, pendingFrames)
  /\ UNCHANGED <<events, context, container, refs, phase,
                 callbacks, storage, cameraObj, rendererObj, managerObj,
                 frameId, lastTime, deltaTime, nextHandle,
                 inflight, clock, listening, cleanup, stopped,
                 ticksAfterStop, ticks>>

LoadProgress ==
  \E item \in Items, p \in Progress :
    Forward("onLoadProgress", <<item, p[1], p[2]>>)

LoadError == \E url \in Urls : Forward("onLoadError", <<url>>)

LoadDone == Forward("onLoad", <<>>)

\* ------------------------------------------------------------------ spec
Next ==
  \/ Mount
  \/ Rerender
  \/ Start
  \/ HostDispatch
  \/ Tick
  \/ Stop
  \/ Unmount
  \/ WindowResize
  \/ LoadProgress
  \/ LoadError
  \/ LoadDone

Spec == Init /\ [][Next]_vars

\* ================================================================ claims
\* The operation that ran last, and the positions of its calls to `name`.
Op == IF trace = <<>> THEN "none" ELSE trace[1].call

Calls(name) == {i \in 1..Len(trace) : trace[i].call = name}

Thrown == Calls("throw") # {}

HandlerCalls == {i \in 1..Len(trace) : trace[i].call \in HandlerNames}

\* ---------------------------------------------------------------- C1
\* C1: after the owning component has re-rendered with a new handler set,
\* a frame tick invokes the onUpdate of the handler set supplied last, never
\* an earlier one.
C1_TickUsesLatestHandlers ==
  Op = "update" =>
    /\ \A i \in Calls("onUpdate") : trace[i].who = events.id
    /\ (Has(events, "onUpdate") => Calls("onUpdate") # {})

\* ---------------------------------------------------------------- C2
\* C2: once stop() has returned at most one further tick runs, the one the
\* host had already dispatched.
C2_AtMostOneTickAfterStop == ticksAfterStop <= 1

\* ---------------------------------------------------------------- C3
\* C3: start() called while a frame request is pending is a no-op: it
\* neither invokes onStart nor requests a frame.
C3_StartWhileRunningIsNoOp ==
  \A i \in Calls("start") :
    trace[i].wasPending =>
      Calls("onStart") = {} /\ Calls("requestAnimationFrame") = {}

\* ---------------------------------------------------------------- C4
\* C4: in every reachable state at most one frame request is outstanding
\* with the host: at most one is pending, and none while a dispatched frame
\* has not yet run.
C4_AtMostOnePendingFrame ==
  /\ Cardinality(pendingFrames) <= 1
  /\ (inflight # NoFrame => pendingFrames = {})

\* A tick has re-requested a frame after stop() returned, and it is the
\* only request pending.
C4_Witness ==
  Op = "update" /\ stopped /\ Cardinality(pendingFrames) = 1 /\ frameId = 2

\* ---------------------------------------------------------------- C5
\* What C5 says of one tick, for a given reading `flag` of "manualRender is
\* set": onUpdate (when present) is invoked once; with the flag set there is
\* no render call; with it unset the projection matrix is recomputed and the
\* scene rendered once, after onUpdate.
TickRendersUnless(flag) ==
  (Op = "update" /\ ~Thrown) =>
    /\ (Has(callbacks, "onUpdate") => Cardinality(Calls("onUpdate")) = 1)
    /\ (flag => Calls("render") = {})
    /\ (~flag =>
          /\ Cardinality(Calls("render")) = 1
          /\ \A u \in Calls("onUpdate"), r \in Calls("render") : u < r
          /\ \A m \in Calls("updateProjectionMatrix"), r \in Calls("render") :
               m < r)

C6_NoFrameRequestAfterStop ==
  [][stopped => nextHandle' = nextHandle]_vars

\* ---------------------------------------------------------------- C7
\* C7: every stop() invokes onDestroy (when present) with the Shared
\* Context before anything else, and only after it has returned cancels the
\* request named by frameId.current, when there is one; this is so on an
\* already-stopped controller as well.
C7_StopDestroysThenCancels ==
  Op = "stop" =>
    /\ (Has(callbacks, "onDestroy") =>
          /\ Calls("onDestroy") = {2}
          /\ trace[2].ctx = storage
          /\ trace[2].who = callbacks.id)
    /\ (~Has(callbacks, "onDestroy") => Calls("onDestroy") = {})
    /\ \A c \in Calls("cancelAnimationFrame") :
         /\ \A d \in Calls("onDestroy") : d < c
         /\ trace[c].id = frameId
    /\ (Thrown => Calls("cancelAnimationFrame") = {})
    /\ (~Thrown =>
          /\ (frameId # 0 <=> Cardinality(Calls("cancelAnimationFrame")) = 1)
          /\ frameId \notin pendingFrames)

\* stop() on a controller that had already been stopped: onDestroy is
\* invoked again and the stale request is cancelled again.
C7_Witness ==
  /\ Op = "stop"
  /\ trace[1].again
  /\ Calls("onDestroy") = {2}
  /\ Calls("cancelAnimationFrame") = {3}

\* ---------------------------------------------------------------- C8
Handles(ctx) ==
  [scene |-> ctx.scene, camera |-> ctx.camera, renderer |-> ctx.renderer,
   manager |-> ctx.manager]

HandlesPresent(ctx) ==
  /\ ctx.scene # Undefined
  /\ ctx.camera # Undefined
  /\ ctx.renderer # Undefined
  /\ ctx.manager # Undefined

\* C8: every handler invocation receives a Shared Context whose four
\* resource handles are present and are the ones assigned at session start,
\* and the Shared Context keeps them for the rest of the session.
C8_HandlesPresentAndStable ==
  /\ \A i \in HandlerCalls :
       HandlesPresent(trace[i].ctx) /\ Handles(trace[i].ctx) = refs
  /\ (phase # "rendered" /\ refs # EmptyRefs =>
        HandlesPresent(storage) /\ Handles(storage) = refs)

\* An asset-loading error forwarded after the session was stopped still
\* carries the default-constructed handles.
C8_Witness ==
  /\ stopped
  /\ Calls("onLoadError") # {}
  /\ \A i \in Calls("onLoadError") :
       trace[i].ctx.manager = "manager#default"

\* ---------------------------------------------------------------- C9
\* The mount effect has just run on an attached container of extent w x h.
Mounted(w, h) ==
  /\ Op = "effect"
  /\ container.attached
  /\ container.width = w
  /\ container.height = h

ZeroExtent(sz) == sz[1] = 0 \/ sz[2] = 0

IsRatio(a, w, h) == a.den > 0 /\ a.num * h = a.den * w

\* C10 as claimed: for non-zero container dimensions and every
\* configuration, after initialization the camera's aspect is width/height
\* and the renderer is sized to (width, height).
C10_AspectAlwaysFromContainer ==
  \A sz \in ContainerSizes :
    (Mounted(sz[1], sz[2]) /\ ~ZeroExtent(sz)) =>
      /\ IsRatio(cameraObj.aspect, sz[1], sz[2])
      /\ rendererObj.size = sz

\* C10 amended: for non-zero container dimensions the renderer is sized to
\* (width, height) in every configuration; a default-constructed camera is a
\* perspective camera of aspect width/height, and an injected camera keeps
\* the aspect it came with.
C10_DefaultCameraAspectFromContainer ==
  \A sz \in ContainerSizes :
    (Mounted(sz[1], sz[2]) /\ ~ZeroExtent(sz)) =>
      /\ rendererObj.size = sz
      /\ (context.camera = Undefined =>
            /\ cameraObj.type = "PerspectiveCamera"
            /\ IsRatio(cameraObj.aspect, sz[1], sz[2])
            /\ cameraObj.projection = cameraObj.aspect)
      /\ (context.camera = "PerspectiveCamera#injected" =>
            cameraObj.aspect = InjectedAspect)
      /\ (context.camera = "OrthographicCamera#injected" =>
            cameraObj.aspect = NoNumber)

\* A default camera on a 2 x 1 container: aspect 2.
C10_Witness ==
  /\ Mounted(2, 1)
  /\ context.camera = Undefined
  /\ cameraObj.aspect = [num |-> 2, den |-> 1]
  /\ rendererObj.size = <<2, 1>>

\* ---------------------------------------------------------------- C11
\* resize() found the container, the camera and the renderer (line 184).
Resized ==
  Op = "resize" /\ listening /\ CanResize(container, refs)

\* C11: a resize() that finds container, camera and renderer resizes the
\* renderer to the container's current (width, height); a perspective
\* camera's aspect becomes width/height, an orthographic camera's aspect is
\* not assigned; in both cases the projection matrix is recomputed once,
\* after the aspect assignment and before the renderer is resized.
C11_ResizeFollowsContainer ==
  Resized =>
    /\ rendererObj.size = <<container.width, container.height>>
    /\ Cardinality(Calls("setSize")) = 1
    /\ \A s \in Calls("setSize") :
         /\ trace[s].width = container.width
         /\ trace[s].height = container.height
    /\ Cardinality(Calls("updateProjectionMatrix")) = 1
    /\ \A m \in Calls("updateProjectionMatrix") :
         /\ \A a \in Calls("setAspect") : a < m
         /\ \A s \in Calls("setSize") : m < s
    /\ (cameraObj.type = "PerspectiveCamera" =>
          /\ cameraObj.aspect = Div(container.width, container.height)
          /\ cameraObj.projection = cameraObj.aspect
          /\ Cardinality(Calls("setAspect")) = 1)
    /\ (cameraObj.type = "OrthographicCamera" =>
          /\ cameraObj.aspect = NoNumber
          /\ Calls("setAspect") = {})

\* An injected perspective camera, built with aspect 3/2, after the
\* container was laid out 1 x 2: aspect and projection are 1/2.
C11_Witness ==
  /\ Resized
  /\ cameraObj.id = "PerspectiveCamera#injected"
  /\ cameraObj.aspect = [num |-> 1, den |-> 2]
  /\ cameraObj.projection = [num |-> 1, den |-> 2]
  /\ rendererObj.size = <<1, 2>>

\* ---------------------------------------------------------------- C12
\* What C12 says of one asset-loading event, for a given reading `reg` of
\* "the currently registered handlers": when `reg` has a handler for the
\* event it is invoked exactly once, inside the event's own dispatch, with
\* the Shared Context followed by the event's payload, and no other handler
\* is invoked; when `reg` has none, no handler is invoked.
EventForwardedTo(reg) ==
  Op = "manager" =>
    LET name == trace[1].event
    IN /\ HandlerCalls \subseteq Calls(name)
       /\ (Has(reg, name) =>
             /\ Calls(name) = {2}
             /\ trace[2].who = reg.id
             /\ trace[2].ctx = storage
             /\ trace[2].args = trace[1].payload)
       /\ (~Has(reg, name) => Calls(name) = {})

\* C12: the handler invoked for an asset-loading event is the one of the
\* handler set the caller supplied last (the registry "always reflects the
\* most recently supplied handlers").
C12_EventReachesCurrentHandler == EventForwardedTo(events)

\* ---------------------------------------------------------------- C13
\* The entry the Shared Context must hold for a resource: the object the
\* configuration supplies, or else the default of that resource.
SuppliedOr(supplied, default) ==
  IF supplied # Undefined THEN supplied ELSE default

\* The constructor calls of the operation that ran last, by class.
Built(what) == {i \in Calls("new") : trace[i].what = what}

\* C13: from session start on, for the rest of the behaviour, the Shared
\* Context holds for store, scene, camera, renderer and loading manager the
\* very object the configuration supplied, or else the default; a default
\* is constructed by the mount effect only, once for each resource left
\* out and never for a supplied one.
C13_InjectedKeptDefaultsBuiltOnce ==
  /\ (refs # EmptyRefs =>
        /\ (context.store.id # Undefined => storage.store = context.store)
        /\ (context.store.id = Undefined =>
              storage.store.id = "store#default")
        /\ storage.scene = SuppliedOr(context.scene, "scene#default")
        /\ storage.camera = SuppliedOr(context.camera, "camera#default")
        /\ storage.renderer = SuppliedOr(context.renderer, "renderer#default")
        /\ storage.manager = SuppliedOr(context.manager, "manager#default")
        /\ cameraObj.id = storage.camera
        /\ rendererObj.id = storage.renderer
        /\ managerObj.id = storage.manager)
  /\ (Op # "effect" => Calls("new") = {})
  /\ ((Op = "effect" /\ container.attached) =>
        /\ Cardinality(Built("Scene")) =
             (IF context.scene = Undefined THEN 1 ELSE 0)
        /\ Cardinality(Built("WebGLRenderer")) =
             (IF context.renderer = Undefined THEN 1 ELSE 0)
        /\ Cardinality(Built("PerspectiveCamera")) =
             (IF context.camera = Undefined THEN 1 ELSE 0)
        /\ Cardinality(Built("LoadingManager")) =
             (IF context.manager = Undefined THEN 1 ELSE 0))

\* A session with every resource injected, after a resize and a stop: the
\* Shared Context still holds the caller's objects.
C13_Witness ==
  /\ stopped
  /\ context = AllInjected
  /\ storage.scene = "scene#injected"
  /\ storage.store.id = "store#injected"
  /\ rendererObj.id = "renderer#injected"
  /\ rendererObj.size = <<1, 2>>

\* ---------------------------------------------------------------- C14
\* C14: with the webgl2 option set and no renderer injected, the renderer
\* created at session start is the one createRenderer builds for the
\* webgl2 backend, not the plain default renderer.
C14_Webgl2RendererFromCreateRenderer ==
  (Op = "effect" /\ container.attached
     /\ context.webgl2 /\ context.renderer = Undefined) =>
    /\ rendererObj.backend = createRenderer(context)
    /\ rendererObj.backend = "webgl2"

\* ---------------------------------------------------------------- C15
\* C15: every tick requests the next frame before it dispatches onUpdate,
\* and the request is pending when the tick is over, also when onUpdate
\* threw; the host can then run a later tick.
C15_FrameRequestedBeforeOnUpdate ==
  Op = "update" =>
    /\ Calls("requestAnimationFrame") = {2}
    /\ \A u \in Calls("onUpdate") : 2 < u
    /\ trace[2].id = frameId
    /\ pendingFrames = {frameId}
    /\ inflight = NoFrame

\* The second tick of a session, at 1000 ms, whose onUpdate received a
\* delta of 1: the first tick, at 500 ms, threw (lastTime stayed 0), and
\* the loop went on.
C15_Witness ==
  /\ Op = "update"
  /\ nextHandle = 3
  /\ ~Thrown
  /\ \E u \in Calls("onUpdate") : trace[u].args = [num |-> 1, den |-> 1]

\* ---------------------------------------------------------------- C16
\* The timestamp of the tick that ran last, and of the tick before it (0
\* when there was none).
ThisTick == ticks[Len(ticks)].time

PreviousTick == IF Len(ticks) > 1 THEN ticks[Len(ticks) - 1].time ELSE 0

\* The timestamp of the last of the first n ticks whose onUpdate returned
\* (0 when there is none).
RECURSIVE LastCompleted(_)
LastCompleted(n) ==
  IF n = 0 THEN 0
  ELSE IF ~ticks[n].threw THEN ticks[n].time
  ELSE LastCompleted(n - 1)

\* What C16 says of one tick, for a given reading `base` of
\* "lastTickTimestamp": the delta is computed before the dispatch and
\* onUpdate receives (timestamp - base) / 1000; when onUpdate has returned,
\* lastTime.current is the tick's timestamp.
DeltaMeasuredFrom(base) ==
  Op = "update" =>
    /\ deltaTime = [num |-> (ThisTick - base) \div GCD(ThisTick - base, 1000),
                    den |-> 1000 \div GCD(ThisTick - base, 1000)]
    /\ \A u \in Calls("onUpdate") : trace[u].args = deltaTime
    /\ (~Thrown => lastTime = ThisTick)

\* C16 as claimed: lastTickTimestamp is the timestamp of the previous tick
\* (0 before the first tick).
C16_DeltaFromPreviousTick == DeltaMeasuredFrom(PreviousTick)

\* C16 amended: lastTickTimestamp is the timestamp of the last earlier tick
\* whose onUpdate returned (0 when there is none); it is the previous tick
\* only when that tick did not throw.
C16_DeltaFromLastCompletedTick ==
  DeltaMeasuredFrom(LastCompleted(Len(ticks) - 1))

\* A first tick at 1000 ms: onUpdate receives the delta 1.
C16_Witness ==
  /\ Op = "update"
  /\ Len(ticks) = 1
  /\ ThisTick = 1000
  /\ \E u \in Calls("onUpdate") : trace[u].args = [num |-> 1, den |-> 1]
  /\ lastTime = 1000

\* ---------------------------------------------------------------- C17
\* The number of onUpdate invocations made by the first n ticks.
RECURSIVE Updates(_)
Updates(n) == IF n = 0 THEN 0 ELSE ticks[n].updates + Updates(n - 1)

\* C17: every run of the frame callback invokes onUpdate exactly once when
\* the registry has it (and never otherwise) and requests exactly one next
\* frame; over the whole session the onUpdate invocations number as many as
\* the frame callbacks run, and the frames requested one more (the first,
\* requested by start()).
C17_OneUpdateAndOneRequestPerTick ==
  /\ (Op = "update" =>
        /\ Cardinality(Calls("onUpdate")) =
             (IF Has(callbacks, "onUpdate") THEN 1 ELSE 0)
        /\ Cardinality(Calls("requestAnimationFrame")) = 1
        /\ ticks[Len(ticks)].updates = Cardinality(Calls("onUpdate"))
        /\ ticks[Len(ticks)].time = trace[1].time)
  /\ (Has(callbacks, "onUpdate") => Updates(Len(ticks)) = Len(ticks))
  /\ (~Has(callbacks, "onUpdate") => Updates(Len(ticks)) = 0)
  /\ (ticks # <<>> => nextHandle = Len(ticks) + 1)

\* Two frame callbacks have run, the first of which threw: onUpdate was
\* invoked twice and three frames were requested.
C17_Witness ==
  /\ Len(ticks) = 2
  /\ ticks[1].threw
  /\ Updates(2) = 2
  /\ nextHandle = 3

\* ---------------------------------------------------------------- C18
\* The operation a step performs is the forwarding of an asset-loading
\* event.
EventStep == trace' # <<>> /\ trace'[1].call = "manager"

\* C18: the handling of a progress, error or completion event, a handler
\* that throws included, leaves the frame requests, the timing state and
\* the resource handles as they were.
C18_LoadEventsLeaveLoopAlone ==
  [][EventStep =>
       /\ pendingFrames' = pendingFrames
       /\ inflight' = inflight
       /\ frameId' = frameId
       /\ nextHandle' = nextHandle
       /\ lastTime' = lastTime
       /\ deltaTime' = deltaTime
       /\ refs' = refs
       /\ Handles(storage') = Handles(storage)
       /\ cameraObj' = cameraObj
       /\ rendererObj' = rendererObj
       /\ managerObj' = managerObj]_vars

\* A loading error whose handler threw, reported between two ticks of a
\* running session: the frame requested by the first tick is still pending.
C18_Witness ==
  /\ Op = "manager"
  /\ trace[1].event = "onLoadError"
  /\ Calls("onLoadError") # {}
  /\ Thrown
  /\ Len(ticks) = 1
  /\ ~stopped
  /\ pendingFrames = {frameId}
  /\ frameId = 2

\* ---------------------------------------------------------------- C19
\* (a - b) / 1000 as an exact value.
SecondsBetween(a, b) ==
  [num |-> (a - b) \div GCD(a - b, 1000), den |-> 1000 \div GCD(a - b, 1000)]

\* C19: a tick whose onUpdate throws makes no render call and leaves
\* lastTime.current at its previous value, so that lastTime.current is at
\* all times the timestamp of the last tick that completed (0 when none
\* did); the tick after a throwing one passes onUpdate a delta measured
\* from that timestamp, not from the throwing tick's.
C19_ThrowingTickLeavesBaseline ==
  /\ lastTime = LastCompleted(Len(ticks))
  /\ ((Op = "update" /\ Thrown) =>
        /\ ticks[Len(ticks)].threw
        /\ Calls("render") = {}
        /\ Calls("updateProjectionMatrix") = {}
        /\ lastTime = LastCompleted(Len(ticks) - 1)
        /\ lastTime # ThisTick)
  /\ ((Op = "update" /\ Len(ticks) > 1 /\ ticks[Len(ticks) - 1].threw) =>
        \A u \in Calls("onUpdate") :
          /\ trace[u].args =
               SecondsBetween(ThisTick, LastCompleted(Len(ticks) - 2))
          /\ trace[u].args # SecondsBetween(ThisTick, PreviousTick))

\* The tick at 1000 ms that follows a tick at 500 ms whose onUpdate threw:
\* onUpdate receives 1, measured from the baseline 0, not 1/2.
C19_Witness ==
  /\ Op = "update"
  /\ Len(ticks) = 2
  /\ ticks[1].time = 500
  /\ ticks[1].threw
  /\ ~ticks[2].threw
  /\ \E u \in Calls("onUpdate") :
       trace[u].args = SecondsBetween(1000, 0)
  /\ Calls("render") # {}
  /\ lastTime = 1000

\* ---------------------------------------------------------------- C20
\* The mount effect ran on an attached container and its start() threw.
StartFailed == refs # EmptyRefs /\ ~rendererObj.appended

\* C20: the mount effect invokes onStart (when present) once, with the
\* populated Shared Context, before it requests the first frame, and no
\* tick runs before that; when onStart throws, the effect requests no
\* frame, registers neither the resize listener nor a teardown, and for
\* the rest of the behaviour no frame is requested, no tick runs, and
\* unmounting invokes neither stop() nor onDestroy.
C20_OnStartFirstAndFatal ==
  /\ ((Op = "effect" /\ container.attached) =>
        /\ Cardinality(Calls("onStart")) =
             (IF Has(events, "onStart") THEN 1 ELSE 0)
        /\ \A i \in Calls("onStart") :
             /\ trace[i].who = events.id
             /\ trace[i].ctx = storage
             /\ HandlesPresent(trace[i].ctx)
             /\ trace[i].ctx.store.id # Undefined
             /\ \A q \in Calls("requestAnimationFrame") : i < q
             /\ \A a \in Calls("addEventListener") : i < a
        /\ ticks = <<>>
        /\ (Thrown <=> StartFailed)
        /\ (~Thrown =>
              /\ Cardinality(Calls("requestAnimationFrame")) = 1
              /\ frameId = 1
              /\ listening
              /\ cleanup))
  /\ (StartFailed =>
        /\ nextHandle = 0
        /\ frameId = 0
        /\ pendingFrames = {}
        /\ inflight = NoFrame
        /\ ticks = <<>>
        /\ ~listening
        /\ ~cleanup
        /\ ~stopped
        /\ Calls("requestAnimationFrame") = {}
        /\ Calls("addEventListener") = {}
        /\ Calls("onUpdate") = {}
        /\ Calls("stop") = {}
        /\ Calls("onDestroy") = {})
  /\ (ticks # <<>> => cleanup)

\* The mount effect whose onStart threw: the handler got the populated
\* Shared Context, and nothing was requested or registered.
C20_Witness ==
  /\ Op = "effect"
  /\ Thrown
  /\ \E i \in Calls("onStart") : HandlesPresent(trace[i].ctx)
  /\ nextHandle = 0
  /\ ~listening
  /\ ~cleanup

====
